---- MODULE Spec2Model ----
(***************************************************************************)
(* Model of app.py, the Streamlit "missing star" chart generator.          *)
(*                                                                         *)
(* One run of the script body under `if go:` is a request.  Streamlit runs *)
(* the script of every browser session in a thread of the same process, so *)
(* the requests of two sessions interleave statement by statement; the     *)
(* st.cache_data cache and the files under TMP_DIR belong to the process.  *)
(*                                                                         *)
(* The model covers lines 1-162 of app.py; lines 163-172 are pasted        *)
(* deployment notes, not statements of the script.                         *)
(*                                                                         *)
(* Magnitudes are in tenths (the step of the n input), angles in whole     *)
(* degrees, sines in units of 1/Scale.                                     *)
(***************************************************************************)
EXTENDS Integers, Sequences, FiniteSets, TLC

\* ---------------------------------------------------------------- bounds
MaxRows == 7        \* longest catalog prefix Init draws
MaxK == 3           \* largest removal count typed into the form
AltGrid == 18       \* the altitude function is applied on a grid of 180/AltGrid degrees

\* ------------------------------------------------------------- constants
MAX_PLOT_MAG == 40  \* 4.0 in tenths of a magnitude
Scale == 10000      \* fixed-point unit of a sine
NULL == -1          \* a missing catalog id
NaN == 999          \* result of an inverse sine outside [-1, 1]
NoAlt == 1000       \* a row of a frame that has no "alt" column
Sessions == {1, 2}

\* ------------------------------------------------------- pure: altitude
RoundDiv(a, b) == (2 * a + b) \div (2 * b)

\* sine of a whole degree, rounded to 1/Scale (Bhaskara's rational form)
SinDeg(a) ==
  LET x == a % 360
      P(y) == RoundDiv(4 * y * (180 - y) * Scale, 40500 - y * (180 - y))
  IN  IF x <= 180 THEN P(x) ELSE -P(x - 180)

CosDeg(a) == SinDeg(a + 90)

\* a plausible slip: the sum is handed to the inverse sine unclamped
Clamp_none(s) == s

Clamp(s) == IF s > Scale THEN Scale ELSE IF s < -Scale THEN -Scale ELSE s

\* inverse sine in whole degrees; outside the domain there is no angle
ArcSinDeg(s) ==
  IF s < -Scale \/ s > Scale THEN NaN
  ELSE CHOOSE a \in -90..90 : SinDeg(a) <= s /\ (a = 90 \/ SinDeg(a + 1) > s)

\* sin(lat)sin(dec) + cos(lat)cos(dec)cos(ha), each product rounded
SinAlt(lat, dec, ha) ==
  RoundDiv(SinDeg(lat) * SinDeg(dec)
           + RoundDiv(CosDeg(lat) * CosDeg(dec), Scale) * CosDeg(ha), Scale)

Altitude(lat, dec, ha) == ArcSinDeg(Clamp(SinAlt(lat, dec, ha)))

\* ---------------------------------------------------- the star catalog
\* A row of Star._table: pandas index label, hip, ra, dec, magnitude, and
\* the "alt" column once a request has added it.
Row(i, hip, ra, dec, mag) ==
  [idx |-> i, hip |-> hip, ra |-> ra, dec |-> dec, magnitude |-> mag, alt |-> NoAlt]

AllRows ==
  << Row(1, 1,    180, 0,  10),
     Row(2, 2,    170, 30, 25),
     Row(3, NULL, 180, 10, 15),
     Row(4, 3,    190, 20, 45),
     Row(5, 4,    90,  0,  20),
     Row(6, 5,    300, 0,  5),
     Row(7, 1,    200, 10, 35),
     Row(8, 2,    175, 25, 12),
     Row(9, 6,    185, 5,  30) >>

Catalogs == { SubSeq(AllRows, 1, len) : len \in 0..MaxRows }

Range(s) == { s[i] : i \in 1..Len(s) }

\* ------------------------------------------------------------ the form
DateTexts == { <<2023, 7, 13>>, <<2023, 2, 29>>, <<2023, 13, 1>>, <<>> }
TimeTexts == { [f |-> <<22, 0>>, off |-> "naive"],
               [f |-> <<22, 0>>, off |-> "+05:00"],
               [f |-> <<24, 0>>, off |-> "naive"] }
Lats == {0, 37}
Lons == {0, 90}
Thresholds == {20, 30, 40}
Counts == -1..MaxK

Forms ==
  [date_str : DateTexts, time_str : TimeTexts, lat : Lats, lon : Lons,
   n : Thresholds, k : Counts]

\* the forms of the two-session runs: well-formed, enough candidates
ConcForms ==
  [date_str : {<<2023, 7, 13>>}, time_str : {[f |-> <<22, 0>>, off |-> "naive"]},
   lat : {0}, lon : {0}, n : {30, 40}, k : {1, 2}]

DefaultForm ==
  [date_str |-> <<2023, 7, 13>>, time_str |-> [f |-> <<22, 0>>, off |-> "naive"],
   lat |-> 37, lon |-> 90, n |-> 30, k |-> 1]

\* ------------------------------------------------ pure: date and time
IsLeap(y) == (y % 4 = 0 /\ y % 100 # 0) \/ y % 400 = 0

DaysInMonth(y, m) ==
  IF m = 2 THEN (IF IsLeap(y) THEN 29 ELSE 28)
  ELSE IF m \in {4, 6, 9, 11} THEN 30 ELSE 31

NoDt == [ok |-> FALSE, y |-> 0, m |-> 0, d |-> 0, h |-> 0, mi |-> 0, tzinfo |-> "none"]

\* a plausible slip: the day is only checked against 31, not against the month
FromIsoFormat_noday(ds, ts) ==
  IF /\ Len(ds) = 3
     /\ ds[1] \in 1..9999
     /\ ds[2] \in 1..12
     /\ ds[3] \in 1..31
     /\ Len(ts.f) \in 1..2
     /\ ts.f[1] \in 0..23
     /\ (Len(ts.f) = 2 => ts.f[2] \in 0..59)
  THEN [ok |-> TRUE, y |-> ds[1], m |-> ds[2], d |-> ds[3], h |-> ts.f[1],
        mi |-> (IF Len(ts.f) = 2 THEN ts.f[2] ELSE 0), tzinfo |-> ts.off]
  ELSE NoDt

\* datetime.fromisoformat(f"{date_str} {time_str}"); NoDt stands for ValueError
FromIsoFormat(ds, ts) ==
  IF /\ Len(ds) = 3
     /\ ds[1] \in 1..9999
     /\ ds[2] \in 1..12
     /\ ds[3] \in 1..DaysInMonth(ds[1], ds[2])
     /\ Len(ts.f) \in 1..2
     /\ ts.f[1] \in 0..23
     /\ (Len(ts.f) = 2 => ts.f[2] \in 0..59)
  THEN [ok |-> TRUE, y |-> ds[1], m |-> ds[2], d |-> ds[3], h |-> ts.f[1],
        mi |-> (IF Len(ts.f) = 2 THEN ts.f[2] ELSE 0), tzinfo |-> ts.off]
  ELSE NoDt

\* dt.replace(tzinfo=...): the wall-clock fields stay, the zone is overwritten
ReplaceTzinfo(d, tz) == [d EXCEPT !.tzinfo = tz]

NoObserver == [dt |-> NoDt, lat |-> 0, lon |-> 0]

\* local sidereal time of the observer, in degrees: a coarse stand-in for
\* the plotting library's own computation from dt and lon
Lst(obs) == (30 * obs.dt.m + 15 * obs.dt.h + obs.lon) % 360

\* tmp_plot.altaz(ra, dec): the altitude of a star for the plot's observer
Altaz(obs, ra, dec) == Altitude(obs.lat, dec, Lst(obs) - ra)

\* ------------------------------------------------- pure: frame filters
\* a plausible slip: the rows without a catalog id are kept
LoadStarsSafe_keepnull(tbl) == SelectSeq(tbl, LAMBDA row : row.magnitude <= MAX_PLOT_MAG)

LoadStarsSafe(tbl) ==
  SelectSeq(SelectSeq(tbl, LAMBDA row : row.magnitude <= MAX_PLOT_MAG),
            LAMBDA row : row.hip # NULL)

\* a plausible slip: the horizon itself counts as visible
IsVisible_ge(alt) == alt # NaN /\ alt >= 0

\* df["alt"] > 0 (a NaN compares false)
IsVisible(alt) == alt # NaN /\ alt > 0

\* a plausible slip: off by one in the shortage test
Insufficient_off(cand, k) == Len(cand) + 1 < k

\* len(df_cand) < k
Insufficient(cand, k) == Len(cand) < k

\* df[df.hip == hip]['magnitude'].values[0]
MagOfHip(frame, hip) == SelectSeq(frame, LAMBDA row : row.hip = hip)[1].magnitude

\* ---------------------------------------------------------------- state
VARIABLES
  sessions,       \* the browser sessions connected to the process
  table,          \* Star._table
  form,           \* the widget values of each session
  cache,          \* st.cache_data entry of load_stars_safe
  file,           \* the files under TMP_DIR
  pc,             \* position of each session's script run
  dt, observer, df, df_visible, df_cand,
  missing_stars, missing_hips,
  problem_plot, answer_plot,
  exported,       \* the paths this run has exported
  out,            \* the elements this run has put on the page, in order
  shown,          \* the image bytes st.image read, per path
  listing,        \* the written list of removed stars
  altIn, altOut   \* argument and result of the altitude function

vars ==
  << sessions, table, form, cache, file, pc, dt, observer, df, df_visible,
     df_cand, missing_stars, missing_hips, problem_plot, answer_plot,
     exported, out, shown, listing, altIn, altOut >>

locals ==
  << dt, observer, df, df_visible, df_cand, missing_stars, missing_hips,
     problem_plot, answer_plot, exported, out, shown, listing >>

Paths == {"problem.png", "answer.png"}
NoImage == [by |-> 0, drawn |-> {}, red |-> {}]
NoAltIn == [lat |-> 0, dec |-> 0, ha |-> 0]

GridAngles(lo, hi) == { lo + ((hi - lo) * i) \div AltGrid : i \in 0..AltGrid }
AltInputs == [lat : GridAngles(-90, 90), dec : GridAngles(-90, 90), ha : GridAngles(0, 360)]

InitCommon ==
  /\ cache = [loaded |-> FALSE, df |-> <<>>]
  /\ file = [p \in Paths |-> NoImage]
  /\ pc = [r \in Sessions |-> "idle"]
  /\ dt = [r \in Sessions |-> NoDt]
  /\ observer = [r \in Sessions |-> NoObserver]
  /\ df = [r \in Sessions |-> <<>>]
  /\ df_visible = [r \in Sessions |-> <<>>]
  /\ df_cand = [r \in Sessions |-> <<>>]
  /\ missing_stars = [r \in Sessions |-> {}]
  /\ missing_hips = [r \in Sessions |-> {}]
  /\ problem_plot = [r \in Sessions |-> NoImage]
  /\ answer_plot = [r \in Sessions |-> NoImage]
  /\ exported = [r \in Sessions |-> {}]
  /\ out = [r \in Sessions |-> <<>>]
  /\ shown = [r \in Sessions |-> [p \in Paths |-> NoImage]]
  /\ listing = [r \in Sessions |-> {}]

\* one session, any form, any catalog
Init ==
  /\ sessions = {1}
  /\ table \in Catalogs
  /\ \E f \in Forms : form = [r \in Sessions |-> IF r = 1 THEN f ELSE DefaultForm]
  /\ altIn = NoAltIn /\ altOut = NoAlt
  /\ InitCommon

\* two sessions on the full catalog
InitConc ==
  /\ sessions = Sessions
  /\ table = SubSeq(AllRows, 1, MaxRows)
  /\ form \in [Sessions -> ConcForms]
  /\ altIn = NoAltIn /\ altOut = NoAlt
  /\ InitCommon

\* no session: the altitude function alone, over a grid of arguments
InitAlt ==
  /\ sessions = {}
  /\ table = <<>>
  /\ form = [r \in Sessions |-> DefaultForm]
  /\ altIn \in AltInputs /\ altOut = NoAlt
  /\ InitCommon

\* -------------------------------------------------------------- actions
Idle == {"idle", "done", "stopped", "crashed"}

\* the button is clicked: the script reruns from the top with fresh locals
Go(r) ==
  /\ r \in sessions
  /\ pc[r] \in Idle
  /\ pc' = [pc EXCEPT ![r] = "parse"]
  /\ dt' = [dt EXCEPT ![r] = NoDt]
  /\ observer' = [observer EXCEPT ![r] = NoObserver]
  /\ df' = [df EXCEPT ![r] = <<>>]
  /\ df_visible' = [df_visible EXCEPT ![r] = <<>>]
  /\ df_cand' = [df_cand EXCEPT ![r] = <<>>]
  /\ missing_stars' = [missing_stars EXCEPT ![r] = {}]
  /\ missing_hips' = [missing_hips EXCEPT ![r] = {}]
  /\ problem_plot' = [problem_plot EXCEPT ![r] = NoImage]
  /\ answer_plot' = [answer_plot EXCEPT ![r] = NoImage]
  /\ exported' = [exported EXCEPT ![r] = {}]
  /\ out' = [out EXCEPT ![r] = <<"info">>]
  /\ shown' = [shown EXCEPT ![r] = [p \in Paths |-> NoImage]]
  /\ listing' = [listing EXCEPT ![r] = {}]
  /\ UNCHANGED <<sessions, table, form, cache, file, altIn, altOut>>

\* 1) the try block: parse, then attach the zone; any exception stops the run
ParseDate(r) ==
  /\ r \in sessions
  /\ pc[r] = "parse"
  /\ LET parsed == FromIsoFormat(form[r].date_str, form[r].time_str) IN
       IF parsed.ok
       THEN /\ dt' = [dt EXCEPT ![r] = ReplaceTzinfo(parsed, "Asia/Seoul")]
            /\ pc' = [pc EXCEPT ![r] = "observer"]
            /\ out' = out
       ELSE /\ dt' = dt
            /\ out' = [out EXCEPT ![r] = Append(@, "error_date")]
            /\ pc' = [pc EXCEPT ![r] = "stopped"]
  /\ UNCHANGED <<sessions, table, form, cache, file, observer, df, df_visible,
                 df_cand, missing_stars, missing_hips, problem_plot, answer_plot,
                 exported, shown, listing, altIn, altOut>>

\* 2) Observer(dt, lat, lon)
MakeObserver(r) ==
  /\ r \in sessions
  /\ pc[r] = "observer"
  /\ observer' = [observer EXCEPT ![r] =
                    [dt |-> dt[r], lat |-> form[r].lat, lon |-> form[r].lon]]
  /\ pc' = [pc EXCEPT ![r] = "load"]
  /\ UNCHANGED <<sessions, table, form, cache, file, dt, df, df_visible, df_cand,
                 missing_stars, missing_hips, problem_plot, answer_plot,
                 exported, out, shown, listing, altIn, altOut>>

\* 3) df = load_stars_safe(): computed once per process, every caller gets
\*    its own copy of the cached frame
LoadStars(r) ==
  /\ r \in sessions
  /\ pc[r] = "load"
  /\ LET frame == IF cache.loaded THEN cache.df ELSE LoadStarsSafe(table) IN
       /\ cache' = [loaded |-> TRUE, df |-> frame]
       /\ df' = [df EXCEPT ![r] = frame]
  /\ pc' = [pc EXCEPT ![r] = "altaz"]
  /\ UNCHANGED <<sessions, table, form, file, dt, observer, df_visible, df_cand,
                 missing_stars, missing_hips, problem_plot, answer_plot,
                 exported, out, shown, listing, altIn, altOut>>

\* 4) the altaz loop, df["alt"] = alts, df_visible
ComputeAlt(r) ==
  /\ r \in sessions
  /\ pc[r] = "altaz"
  /\ LET withAlt == [i \in 1..Len(df[r]) |->
                       [df[r][i] EXCEPT !.alt = Altaz(observer[r], df[r][i].ra, df[r][i].dec)]]
     IN /\ df' = [df EXCEPT ![r] = withAlt]
        /\ df_visible' = [df_visible EXCEPT ![r] =
                            SelectSeq(withAlt, LAMBDA row : IsVisible(row.alt))]
  /\ pc' = [pc EXCEPT ![r] = "cand"]
  /\ UNCHANGED <<sessions, table, form, cache, file, dt, observer, df_cand,
                 missing_stars, missing_hips, problem_plot, answer_plot,
                 exported, out, shown, listing, altIn, altOut>>

\* df_cand and the shortage test
Candidates(r) ==
  /\ r \in sessions
  /\ pc[r] = "cand"
  /\ LET cand == SelectSeq(df_visible[r], LAMBDA row : row.magnitude <= form[r].n) IN
       /\ df_cand' = [df_cand EXCEPT ![r] = cand]
       /\ IF Insufficient(cand, form[r].k)
          THEN /\ out' = [out EXCEPT ![r] = Append(@, "error_cand")]
               /\ pc' = [pc EXCEPT ![r] = "stopped"]
          ELSE /\ out' = out
               /\ pc' = [pc EXCEPT ![r] = "sample"]
  /\ UNCHANGED <<sessions, table, form, cache, file, dt, observer, df, df_visible,
                 missing_stars, missing_hips, problem_plot, answer_plot,
                 exported, shown, listing, altIn, altOut>>

\* missing_stars = df_cand.sample(k): k distinct rows; pandas raises
\* ValueError for a negative k and for a k larger than the frame, and
\* nothing catches it
Sample(r) ==
  /\ r \in sessions
  /\ pc[r] = "sample"
  /\ LET k == form[r].k IN
       IF k < 0 \/ k > Len(df_cand[r])
       THEN /\ pc' = [pc EXCEPT ![r] = "crashed"]
            /\ out' = [out EXCEPT ![r] = Append(@, "exception")]
            /\ UNCHANGED <<missing_stars, missing_hips>>
       ELSE \E S \in SUBSET Range(df_cand[r]) :
              /\ Cardinality(S) = k
              /\ missing_stars' = [missing_stars EXCEPT ![r] = S]
              /\ missing_hips' = [missing_hips EXCEPT ![r] = { row.hip : row \in S }]
              /\ pc' = [pc EXCEPT ![r] = "draw_problem"]
              /\ out' = out
  /\ UNCHANGED <<sessions, table, form, cache, file, dt, observer, df, df_visible,
                 df_cand, problem_plot, answer_plot, exported, shown, listing,
                 altIn, altOut>>

\* 5) df_problem and the stars drawn on the problem plot
DrawProblem(r) ==
  /\ r \in sessions
  /\ pc[r] = "draw_problem"
  /\ LET df_problem == SelectSeq(df_visible[r], LAMBDA row : row.hip \notin missing_hips[r]) IN
       problem_plot' = [problem_plot EXCEPT ![r] =
                          [by |-> r, drawn |-> Range(df_problem), red |-> {}]]
  /\ pc' = [pc EXCEPT ![r] = "export_problem"]
  /\ UNCHANGED <<sessions, table, form, cache, file, dt, observer, df, df_visible,
                 df_cand, missing_stars, missing_hips, answer_plot, exported, out,
                 shown, listing, altIn, altOut>>

\* problem_plot.export(TMP_DIR/problem.png)
ExportProblem(r) ==
  /\ r \in sessions
  /\ pc[r] = "export_problem"
  /\ file' = [file EXCEPT !["problem.png"] = problem_plot[r]]
  /\ exported' = [exported EXCEPT ![r] = @ \cup {"problem.png"}]
  /\ pc' = [pc EXCEPT ![r] = "draw_answer"]
  /\ UNCHANGED <<sessions, table, form, cache, dt, observer, df, df_visible,
                 df_cand, missing_stars, missing_hips, problem_plot, answer_plot,
                 out, shown, listing, altIn, altOut>>

\* 6) every visible star, then the sampled rows again in red
DrawAnswer(r) ==
  /\ r \in sessions
  /\ pc[r] = "draw_answer"
  /\ answer_plot' = [answer_plot EXCEPT ![r] =
                       [by |-> r, drawn |-> Range(df_visible[r]), red |-> missing_stars[r]]]
  /\ pc' = [pc EXCEPT ![r] = "export_answer"]
  /\ UNCHANGED <<sessions, table, form, cache, file, dt, observer, df, df_visible,
                 df_cand, missing_stars, missing_hips, problem_plot, exported, out,
                 shown, listing, altIn, altOut>>

\* answer_plot.export(TMP_DIR/answer.png)
ExportAnswer(r) ==
  /\ r \in sessions
  /\ pc[r] = "export_answer"
  /\ file' = [file EXCEPT !["answer.png"] = answer_plot[r]]
  /\ exported' = [exported EXCEPT ![r] = @ \cup {"answer.png"}]
  /\ pc' = [pc EXCEPT ![r] = "success"]
  /\ UNCHANGED <<sessions, table, form, cache, dt, observer, df, df_visible,
                 df_cand, missing_stars, missing_hips, problem_plot, answer_plot,
                 out, shown, listing, altIn, altOut>>

\* 7) st.success
Success(r) ==
  /\ r \in sessions
  /\ pc[r] = "success"
  /\ out' = [out EXCEPT ![r] = Append(@, "success")]
  /\ pc' = [pc EXCEPT ![r] = "show_problem"]
  /\ UNCHANGED <<sessions, table, form, cache, file, dt, observer, df, df_visible,
                 df_cand, missing_stars, missing_hips, problem_plot, answer_plot,
                 exported, shown, listing, altIn, altOut>>

\* st.image(problem_path): the file is read when the call is made
ShowProblem(r) ==
  /\ r \in sessions
  /\ pc[r] = "show_problem"
  /\ shown' = [shown EXCEPT ![r]["problem.png"] = file["problem.png"]]
  /\ out' = [out EXCEPT ![r] = Append(@, "image_problem")]
  /\ pc' = [pc EXCEPT ![r] = "show_answer"]
  /\ UNCHANGED <<sessions, table, form, cache, file, dt, observer, df, df_visible,
                 df_cand, missing_stars, missing_hips, problem_plot, answer_plot,
                 exported, listing, altIn, altOut>>

\* st.image(answer_path)
ShowAnswer(r) ==
  /\ r \in sessions
  /\ pc[r] = "show_answer"
  /\ shown' = [shown EXCEPT ![r]["answer.png"] = file["answer.png"]]
  /\ out' = [out EXCEPT ![r] = Append(@, "image_answer")]
  /\ pc' = [pc EXCEPT ![r] = "show_list"]
  /\ UNCHANGED <<sessions, table, form, cache, file, dt, observer, df, df_visible,
                 df_cand, missing_stars, missing_hips, problem_plot, answer_plot,
                 exported, listing, altIn, altOut>>

\* the list: one line per element of missing_hips, the magnitude looked up
\* in df by catalog id
ShowList(r) ==
  /\ r \in sessions
  /\ pc[r] = "show_list"
  /\ listing' = [listing EXCEPT ![r] =
                   { [hip |-> h, mag |-> MagOfHip(df[r], h)] : h \in missing_hips[r] }]
  /\ out' = [out EXCEPT ![r] = Append(@, "list")]
  /\ pc' = [pc EXCEPT ![r] = "done"]
  /\ UNCHANGED <<sessions, table, form, cache, file, dt, observer, df, df_visible,
                 df_cand, missing_stars, missing_hips, problem_plot, answer_plot,
                 exported, shown, altIn, altOut>>

Next ==
  \E r \in Sessions :
    \/ Go(r)
    \/ ParseDate(r)
    \/ MakeObserver(r)
    \/ LoadStars(r)
    \/ ComputeAlt(r)
    \/ Candidates(r)
    \/ Sample(r)
    \/ DrawProblem(r)
    \/ ExportProblem(r)
    \/ DrawAnswer(r)
    \/ ExportAnswer(r)
    \/ Success(r)
    \/ ShowProblem(r)
    \/ ShowAnswer(r)
    \/ ShowList(r)

\* the altitude function applied to one argument
ApplyAltitude ==
  /\ altOut = NoAlt
  /\ altOut' = Altitude(altIn.lat, altIn.dec, altIn.ha)
  /\ UNCHANGED <<sessions, table, form, cache, file, pc, altIn>>
  /\ UNCHANGED locals

NextAlt == ApplyAltitude

Spec == Init /\ [][Next]_vars
SpecConc == InitConc /\ [][Next]_vars
SpecAlt == InitAlt /\ [][NextAlt]_vars

\* ------------------------------------------------------------ properties
Last(q) == q[Len(q)]

StoppedByDate(r) == pc[r] = "stopped" /\ Last(out[r]) = "error_date"
StoppedByShortage(r) == pc[r] = "stopped" /\ Last(out[r]) = "error_cand"

AfterSample ==
  {"draw_problem", "export_problem", "draw_answer", "export_answer", "success",
   "show_problem", "show_answer", "show_list", "done"}
AfterDrawProblem == AfterSample \ {"draw_problem"}
AfterDrawAnswer == AfterDrawProblem \ {"export_problem", "draw_answer"}

\* the shortage test of this run has been made
CandDone(r) == pc[r] \in AfterSample \cup {"sample", "crashed"} \/ StoppedByShortage(r)

\* the texts of DateTexts and TimeTexts that Python parses
ParseableForm(f) == f.date_str = <<2023, 7, 13>> /\ f.time_str.f = <<22, 0>>

\* C1: whenever the candidate pool holds at least k stars the request
\* succeeds and the set of removed catalog ids has exactly k elements, for
\* every k of the form (0 and negative included) and for catalogs in which
\* two rows share a catalog id.
C1_SampleSizeIsK ==
  \A r \in sessions :
    (CandDone(r) /\ Len(df_cand[r]) >= form[r].k) =>
      /\ pc[r] \notin {"stopped", "crashed"}
      /\ (pc[r] \in AfterSample => Cardinality(missing_hips[r]) = form[r].k)

\* C2: every star of the removal-candidate set, and so every removed star,
\* is a catalog entry with a non-null catalog id and a magnitude at or
\* below the threshold n and at or below MAX_PLOT_MAG.
C2_CandidatesEligible ==
  \A r \in sessions :
    \A row \in Range(df_cand[r]) \cup missing_stars[r] :
      /\ row.idx \in 1..Len(table)
      /\ [row EXCEPT !.alt = NoAlt] = table[row.idx]
      /\ row.hip # NULL
      /\ row.magnitude <= form[r].n
      /\ row.magnitude <= MAX_PLOT_MAG

\* a finished request that removed a star, from a catalog holding a row
\* without catalog id and a visible star fainter than n
C2_Witness ==
  \E r \in sessions :
    /\ pc[r] = "done"
    /\ missing_stars[r] # {}
    /\ \E i \in 1..Len(table) : table[i].hip = NULL
    /\ Len(df_cand[r]) < Len(df_visible[r])

\* C3: with fewer candidates than k the request ends in the error state
\* with the inline message, and nothing is sampled, exported, displayed or
\* listed and no success message is shown.
C3_ShortageStops ==
  \A r \in sessions :
    (CandDone(r) /\ Len(df_cand[r]) < form[r].k) =>
      /\ StoppedByShortage(r)
      /\ missing_stars[r] = {} /\ missing_hips[r] = {}
      /\ problem_plot[r] = NoImage /\ answer_plot[r] = NoImage
      /\ exported[r] = {}
      /\ \A i \in 1..Len(out[r]) : out[r][i] \in {"info", "error_cand"}
      /\ \A p \in Paths : shown[r][p] = NoImage
      /\ listing[r] = {}

\* a request stopped for lack of candidates
C3_Witness ==
  \E r \in sessions :
    /\ StoppedByShortage(r)
    /\ form[r].k > Len(df_cand[r])
    /\ Len(df_visible[r]) > 0

\* C4: a date or time text that does not parse ends the request in the
\* error state with the message before an observer is built, a catalog is
\* loaded, a star is sampled or an image is written; the later steps are
\* reached only with a parsed date-time in the Asia/Seoul zone.
C4_BadDateStops ==
  \A r \in sessions :
    /\ (pc[r] \notin {"idle", "parse"} /\ ~ParseableForm(form[r])) => StoppedByDate(r)
    /\ StoppedByDate(r) =>
         /\ out[r] = <<"info", "error_date">>
         /\ dt[r] = NoDt /\ observer[r] = NoObserver
         /\ df[r] = <<>> /\ df_visible[r] = <<>> /\ df_cand[r] = <<>>
         /\ missing_stars[r] = {} /\ missing_hips[r] = {}
         /\ exported[r] = {}
    /\ (pc[r] \notin {"idle", "parse"} /\ ~StoppedByDate(r)) =>
         /\ dt[r].ok
         /\ dt[r].tzinfo = "Asia/Seoul"
         /\ dt[r].m \in 1..12 /\ dt[r].d \in 1..DaysInMonth(dt[r].y, dt[r].m)
    /\ observer[r] # NoObserver => observer[r].dt = dt[r]

\* a request stopped on a day the month does not have
C4_Witness ==
  \E r \in sessions :
    /\ StoppedByDate(r)
    /\ form[r].date_str = <<2023, 2, 29>>
    /\ form[r].time_str.f = <<22, 0>>

\* C5: for any interleaving of two requests, the images a request displays
\* are the ones it produced itself, and the "alt" column one request adds
\* never shows in the cached catalog.
C5_OwnImagesShown ==
  /\ \A r \in sessions :
       /\ shown[r]["problem.png"] # NoImage => shown[r]["problem.png"] = problem_plot[r]
       /\ shown[r]["answer.png"] # NoImage => shown[r]["answer.png"] = answer_plot[r]
  /\ \A i \in 1..Len(cache.df) : cache.df[i].alt = NoAlt

\* C6: the altitude computed for any latitude, declination and hour angle
\* lies in [-90, 90] degrees.
C6_AltitudeInRange ==
  altOut # NoAlt => (altOut >= -90 /\ altOut <= 90)

\* an altitude computed from a sum of products that left [-1, 1]
C6_Witness ==
  /\ altOut # NoAlt
  /\ SinAlt(altIn.lat, altIn.dec, altIn.ha) > Scale

\* C7: on a successful request no star whose catalog id is in the removed
\* set is drawn on the problem chart, every other visible star is drawn,
\* and the number of visible stars missing from the chart is k.
C7_ProblemChart ==
  \A r \in sessions :
    pc[r] \in AfterDrawProblem =>
      LET drawn == problem_plot[r].drawn
          vis == Range(df_visible[r])
      IN /\ \A row \in drawn : row.hip \notin missing_hips[r]
         /\ \A row \in vis : row.hip \notin missing_hips[r] => row \in drawn
         /\ Cardinality(vis \ drawn) = form[r].k

\* C8: on a successful request the answer chart draws every visible star,
\* marks in red exactly the sampled stars, and its stars are those of the
\* problem chart plus the removed ones.
C8_AnswerChart ==
  \A r \in sessions :
    pc[r] \in AfterDrawAnswer =>
      /\ answer_plot[r].drawn = Range(df_visible[r])
      /\ answer_plot[r].red = missing_stars[r]
      /\ answer_plot[r].drawn = problem_plot[r].drawn \cup answer_plot[r].red

\* C9: every star drawn on either chart and every candidate and removed
\* star has an altitude strictly above 0 for the request's observer.
C9_AboveHorizon ==
  \A r \in sessions :
    \A row \in problem_plot[r].drawn \cup answer_plot[r].drawn \cup answer_plot[r].red
                 \cup Range(df_visible[r]) \cup Range(df_cand[r]) \cup missing_stars[r] :
      LET alt == Altaz(observer[r], row.ra, row.dec) IN
        alt # NaN /\ alt > 0 /\ alt <= 90

\* a finished request whose catalog has a star exactly on the horizon
C9_Witness ==
  \E r \in sessions :
    /\ pc[r] = "done"
    /\ answer_plot[r].drawn # {}
    /\ missing_stars[r] # {}
    /\ \E i \in 1..Len(df[r]) : df[r][i].alt = 0

\* C10: both images are exported before the success message and before
\* either is displayed, and the list has one entry per removed star with
\* that star's catalog id and that star's magnitude.
C10_ExportThenList ==
  \A r \in sessions :
    /\ (\E i \in 1..Len(out[r]) : out[r][i] \in {"success", "image_problem", "image_answer", "list"})
         => exported[r] = Paths
    /\ pc[r] = "done" =>
         /\ listing[r] = { [hip |-> row.hip, mag |-> row.magnitude] : row \in missing_stars[r] }
         /\ Cardinality(listing[r]) = Cardinality(missing_stars[r])

====
